---- MODULE Spec2Model ----
(***************************************************************************)
(* Model of bookmark_tool_gui.py: the bookmark store on disk, its backups, *)
(* the text interchange files, and the Export / Import operations of       *)
(* BookmarkManager with the helpers they call.                             *)
(*                                                                         *)
(* Text is modelled as a sequence of one-character strings, so that        *)
(* splitting, trimming, prefix matching and number formatting are computed *)
(* character by character as the Python code computes them.               *)
(* A bookmark node is a record with the JSON object's keys ("type", "id",  *)
(* "name", "url", "children"); the attributes "guid", "date_added" and     *)
(* "date_modified" are written by Import but read by no operation and are  *)
(* not carried.                                                            *)
(***************************************************************************)
EXTENDS Integers, Sequences, FiniteSets, TLC

VARIABLES
    fs,        \* directory of the store: file name -> [bytes, mtime]
    txt,       \* text files (interchange files): file name -> text
    clock,     \* wall clock, in seconds since 2024-01-01 00:00:00 local time
    pc,        \* per thread: position inside export_bookmarks / import_bookmarks
    loc,       \* per thread: local variables of the running operation
    pre,       \* history: per thread, the store file as it was when the operation started
    created,   \* history: names of the backup files that Imports have created
    exported,  \* history: text file name -> pairs that Export wrote into it
    budget,    \* operations, clock steps and failures still allowed (the bounds)
    fn         \* the pure-function harness: input tree or text, arguments and result

vars == <<fs, txt, clock, pc, loc, pre, created, exported, budget, fn>>

(***************************************************************************)
(* Bounds of the model.                                                    *)
(***************************************************************************)
MaxOps == 2        \* operations started in one behaviour
MaxTicks == 1      \* clock steps in one behaviour
MaxFaults == 1     \* injected write failures and crashes in one behaviour
MaxNodes == 4      \* nodes of a tree given to the pure functions
MaxLines == 4      \* lines of a text given to _parse_txt on its own

(***************************************************************************)
(* Characters and strings.                                                 *)
(***************************************************************************)
DigitChars == <<"0", "1", "2", "3", "4", "5", "6", "7", "8", "9">>

UpperChars == <<"A", "B", "C", "D", "E", "F", "G", "H", "I", "J", "K", "L", "M",
                "N", "O", "P", "Q", "R", "S", "T", "U", "V", "W", "X", "Y", "Z">>

LowerChars == <<"a", "b", "c", "d", "e", "f", "g", "h", "i", "j", "k", "l", "m",
                "n", "o", "p", "q", "r", "s", "t", "u", "v", "w", "x", "y", "z">>

\* str.lower() on one character
Lower(c) ==
    IF \E k \in 1..26 : UpperChars[k] = c
    THEN LowerChars[CHOOSE k \in 1..26 : UpperChars[k] = c]
    ELSE c

\* the characters str.strip() removes
IsSpace(c) == c \in {" ", "\t", "\n", "\r"}

\* the line boundaries of str.splitlines()
IsLineBreak(c) == c \in {"\n", "\r"}

RECURSIVE LStrip(_)
LStrip(s) == IF s # <<>> /\ IsSpace(Head(s)) THEN LStrip(Tail(s)) ELSE s

RECURSIVE RStrip(_)
RStrip(s) ==
    IF s # <<>> /\ IsSpace(s[Len(s)]) THEN RStrip(SubSeq(s, 1, Len(s) - 1)) ELSE s

\* str.strip()
Strip(s) == RStrip(LStrip(s))

\* s.startswith(p)
StartsWith(s, p) == Len(s) >= Len(p) /\ SubSeq(s, 1, Len(p)) = p

\* p occurs in s as a contiguous substring
Contains(s, p) ==
    \E i \in 1..(Len(s) - Len(p) + 1) : SubSeq(s, i, i + Len(p) - 1) = p

RECURSIVE Concat(_)
Concat(ss) == IF ss = <<>> THEN <<>> ELSE Head(ss) \o Concat(Tail(ss))

\* str(n) for an integer n
RECURSIVE NatToStr(_)
NatToStr(n) ==
    IF n < 10 THEN <<DigitChars[n + 1]>>
    ELSE NatToStr(n \div 10) \o <<DigitChars[(n % 10) + 1]>>

IntToStr(n) == IF n < 0 THEN <<"-">> \o NatToStr(-n) ELSE NatToStr(n)

IsDigit(c) == \E k \in 1..10 : DigitChars[k] = c

DigitVal(c) == (CHOOSE k \in 1..10 : DigitChars[k] = c) - 1

RECURSIVE DigitsToNat(_, _)
DigitsToNat(s, acc) ==
    IF s = <<>> THEN acc ELSE DigitsToNat(Tail(s), acc * 10 + DigitVal(Head(s)))

\* whether int(s) succeeds: surrounding whitespace, an optional sign, then digits
IntParses(s) ==
    LET t == Strip(s)
        d == IF t # <<>> /\ Head(t) \in {"+", "-"} THEN Tail(t) ELSE t
    IN  d # <<>> /\ \A k \in 1..Len(d) : IsDigit(d[k])

\* int(s), where it succeeds
ParseInt(s) ==
    LET t == Strip(s)
        neg == t # <<>> /\ Head(t) = "-"
        d == IF t # <<>> /\ Head(t) \in {"+", "-"} THEN Tail(t) ELSE t
        v == DigitsToNat(d, 0)
    IN  IF neg THEN -v ELSE v

(***************************************************************************)
(* FileUtils.sanitize_filename                                             *)
(***************************************************************************)
max_len == 120

IsForbidden(c) == c \in {"\\", "/", ":", "*", "?", "\"", "<", ">", "|"}

IsControl(c) == c \in {"\t", "\n", "\r"}

\* re.sub(r'[\\/:*?"<>|]+', "_", name): a run of forbidden characters becomes one "_"
RECURSIVE ReplaceForbidden(_, _)
ReplaceForbidden(s, inRun) ==
    IF s = <<>> THEN <<>>
    ELSE IF IsForbidden(Head(s))
         THEN (IF inRun THEN <<>> ELSE <<"_">>) \o ReplaceForbidden(Tail(s), TRUE)
         ELSE <<Head(s)>> \o ReplaceForbidden(Tail(s), FALSE)

\* re.sub(r"[\x00-\x1f\x7f]", "", name)
RemoveControl(s) == SelectSeq(s, LAMBDA c : ~IsControl(c))

\* re.sub(r"\s+", " ", name): a run of whitespace becomes one space
RECURSIVE CollapseSpace(_, _)
CollapseSpace(s, inRun) ==
    IF s = <<>> THEN <<>>
    ELSE IF IsSpace(Head(s))
         THEN (IF inRun THEN <<>> ELSE <<" ">>) \o CollapseSpace(Tail(s), TRUE)
         ELSE <<Head(s)>> \o CollapseSpace(Tail(s), FALSE)

sanitize_filename(name) ==
    LET a == Strip(name)
        b == ReplaceForbidden(a, FALSE)
        c == RemoveControl(b)
        d == Strip(CollapseSpace(c, FALSE))
        e == IF d = <<>> THEN <<"e", "x", "p", "o", "r", "t">> ELSE d
    IN  RStrip(SubSeq(e, 1, IF Len(e) < max_len THEN Len(e) ELSE max_len))

(***************************************************************************)
(* The interchange text format: what export_bookmarks writes and what      *)
(* _parse_txt reads.                                                       *)
(***************************************************************************)
\* f.write(f"{name}\n{url}\n\n") for each pair, in order
RECURSIVE WritePairs(_)
WritePairs(pairs) ==
    IF pairs = <<>> THEN <<>>
    ELSE Head(pairs)[1] \o <<"\n">> \o Head(pairs)[2] \o <<"\n", "\n">>
         \o WritePairs(Tail(pairs))

\* str.splitlines(): cur is the line being read, acc the lines read so far
RECURSIVE SplitFrom(_, _, _, _)
SplitFrom(s, i, cur, acc) ==
    IF i > Len(s) THEN (IF cur = <<>> THEN acc ELSE Append(acc, cur))
    ELSE IF IsLineBreak(s[i])
         THEN IF s[i] = "\r" /\ i < Len(s) /\ s[i + 1] = "\n"
              THEN SplitFrom(s, i + 2, <<>>, Append(acc, cur))
              ELSE SplitFrom(s, i + 1, <<>>, Append(acc, cur))
         ELSE SplitFrom(s, i + 1, Append(cur, s[i]), acc)

SplitLines(s) == SplitFrom(s, 1, <<>>, <<>>)

\* [line.strip() for line in ... if line.strip()]
RECURSIVE TrimmedLines(_)
TrimmedLines(ls) ==
    IF ls = <<>> THEN <<>>
    ELSE IF Strip(Head(ls)) # <<>>
         THEN <<Strip(Head(ls))>> \o TrimmedLines(Tail(ls))
         ELSE TrimmedLines(Tail(ls))

\* MatchHttp without re.IGNORECASE
MatchHttpExact(url) ==
    \/ StartsWith(url, <<"h", "t", "t", "p", ":", "/", "/">>)
    \/ StartsWith(url, <<"h", "t", "t", "p", "s", ":", "/", "/">>)

\* re.match(r"^https?://", url, re.IGNORECASE)
MatchHttp(url) ==
    LET l == [k \in 1..Len(url) |-> Lower(url[k])]
    IN  \/ StartsWith(l, <<"h", "t", "t", "p", ":", "/", "/">>)
        \/ StartsWith(l, <<"h", "t", "t", "p", "s", ":", "/", "/">>)

\* ParseFrom advancing by one line after a match too
RECURSIVE ParseFromStepOne(_, _, _)
ParseFromStepOne(lines, i, pairs) ==
    IF i + 1 <= Len(lines)
    THEN IF MatchHttp(lines[i + 1])
         THEN ParseFromStepOne(lines, i + 1, Append(pairs, <<lines[i], lines[i + 1]>>))
         ELSE ParseFromStepOne(lines, i + 1, pairs)
    ELSE pairs

\* the while loop of _parse_txt; i is the code's index plus one
RECURSIVE ParseFrom(_, _, _)
ParseFrom(lines, i, pairs) ==
    IF i + 1 <= Len(lines)
    THEN IF MatchHttp(lines[i + 1])
         THEN ParseFrom(lines, i + 2, Append(pairs, <<lines[i], lines[i + 1]>>))
         ELSE ParseFrom(lines, i + 1, pairs)
    ELSE pairs

parse_txt(text) == ParseFrom(TrimmedLines(SplitLines(text)), 1, <<>>)

(***************************************************************************)
(* Bookmark nodes and the tree helpers of BookmarkManager.                 *)
(***************************************************************************)
Folder(id, name, children) ==
    [type |-> "folder", id |-> id, name |-> name, children |-> children]

Url(id, name, url) == [type |-> "url", id |-> id, name |-> name, url |-> url]

\* node.get("children", [])
Children(node) == IF "children" \in DOMAIN node THEN node.children ELSE <<>>

NoNode == [type |-> "none"]

\* _find_node_by_name; NoNode stands for None
RECURSIVE find_node_by_name(_, _)

\* FindInChildren without the early return: the last match wins
RECURSIVE FindInChildrenLast(_, _)
FindInChildrenLast(children, name) ==
    IF children = <<>> THEN NoNode
    ELSE LET rest == FindInChildrenLast(Tail(children), name)
         IN  IF rest # NoNode THEN rest
             ELSE IF Head(children).type = "folder"
                  THEN find_node_by_name(Head(children), name)
                  ELSE NoNode

\* the for loop of _find_node_by_name, lines 288-292
RECURSIVE FindInChildren(_, _)
FindInChildren(children, name) ==
    IF children = <<>> THEN NoNode
    ELSE IF Head(children).type = "folder"
         THEN LET res == find_node_by_name(Head(children), name)
              IN  IF res # NoNode THEN res ELSE FindInChildren(Tail(children), name)
         ELSE FindInChildren(Tail(children), name)

find_node_by_name(node, name) ==
    IF node.type = "folder" /\ node.name = name THEN node
    ELSE FindInChildren(Children(node), name)

\* _collect_urls
RECURSIVE collect_urls(_, _)

\* CollectFrom with the direct urls first and the subfolders' urls after them
RECURSIVE CollectFromDirectFirst(_, _)
CollectFromDirectFirst(children, recursive) ==
    LET urls == SelectSeq(children, LAMBDA c : c.type = "url")
        subs == SelectSeq(children, LAMBDA c : c.type = "folder" /\ recursive)
    IN  [k \in 1..Len(urls) |-> <<urls[k].name, urls[k].url>>]
        \o Concat([k \in 1..Len(subs) |-> collect_urls(subs[k], TRUE)])

\* the for loop of _collect_urls, lines 296-301
RECURSIVE CollectFrom(_, _)
CollectFrom(children, recursive) ==
    IF children = <<>> THEN <<>>
    ELSE LET child == Head(children)
             here == IF child.type = "url" THEN <<<<child.name, child.url>>>>
                     ELSE IF child.type = "folder" /\ recursive
                          THEN collect_urls(child, TRUE)
                          ELSE <<>>
         IN  here \o CollectFrom(Tail(children), recursive)

collect_urls(node, recursive) == CollectFrom(Children(node), recursive)

\* _find_max_id on one node object: its own "id", then its values in turn
RECURSIVE find_max_id(_)
RECURSIVE MaxOver(_, _)
MaxOver(children, max_id) ==
    IF children = <<>> THEN max_id
    ELSE LET m == find_max_id(Head(children))
         IN  MaxOver(Tail(children), IF m > max_id THEN m ELSE max_id)

find_max_id(node) ==
    LET own == IF "id" \in DOMAIN node /\ IntParses(node.id)
               THEN ParseInt(node.id) ELSE 0
    IN  MaxOver(Children(node), own)

\* check_folder_exists without the test of the child's type
check_any_child_named(root_node, name) ==
    \E i \in 1..Len(Children(root_node)) : Children(root_node)[i].name = name

\* _check_folder_exists
check_folder_exists(root_node, name) ==
    \E i \in 1..Len(Children(root_node)) :
        /\ Children(root_node)[i].type = "folder"
        /\ Children(root_node)[i].name = name

\* the document-level call self._find_max_id(data): the "roots" object's values in turn
RootOrder == <<"bookmark_bar", "other", "synced">>

RootNodes(data) ==
    LET present == SelectSeq(RootOrder, LAMBDA r : r \in DOMAIN data.roots)
    IN  [k \in 1..Len(present) |-> data.roots[present[k]]]

doc_max_id(data) == MaxOver(RootNodes(data), 0)

(***************************************************************************)
(* Time: time.time() and time.strftime("%Y%m%d_%H%M%S").                   *)
(***************************************************************************)
BACKUP_RETENTION_DAYS == 7

MonthLen == <<31, 29, 31, 30, 31, 30, 31, 31, 30, 31, 30, 31>>

\* day d (from 0) of the part of the year that starts with month m
RECURSIVE MonthDay(_, _)
MonthDay(d, m) ==
    IF d < MonthLen[m] THEN <<m, d + 1>> ELSE MonthDay(d - MonthLen[m], m + 1)

Pad2(n) == <<DigitChars[(n \div 10) + 1], DigitChars[(n % 10) + 1]>>

\* time.strftime("%Y%m%d_%H%M%S") at clock value t (the year is 2024 throughout)
strftime(t) ==
    LET md == MonthDay(t \div 86400, 1)
        s == t % 86400
    IN  <<"2", "0", "2", "4">> \o Pad2(md[1]) \o Pad2(md[2]) \o <<"_">>
        \o Pad2(s \div 3600) \o Pad2((s % 3600) \div 60) \o Pad2(s % 60)

(***************************************************************************)
(* Paths and files.                                                        *)
(***************************************************************************)
\* bm_path.name: PathFinder.get_bookmarks_path always ends in "Bookmarks"
StoreName == <<"B", "o", "o", "k", "m", "a", "r", "k", "s">>

\* index of the dot that starts Path.suffix, or 0 when the name has no suffix
SuffixDot(name) ==
    LET dots == {i \in 2..(Len(name) - 1) : name[i] = "."}
    IN  IF dots = {} THEN 0 ELSE CHOOSE i \in dots : \A j \in dots : j <= i

\* path.with_suffix(suffix)
with_suffix(name, suffix) ==
    IF SuffixDot(name) = 0 THEN name \o suffix
    ELSE SubSeq(name, 1, SuffixDot(name) - 1) \o suffix

\* temp_path as the destination itself
temp_path_same(path) == path

\* temp_path = path.with_suffix(".tmp")
temp_path(path) == with_suffix(path, <<".", "t", "m", "p">>)

\* bm_path.with_name(f"{bm_path.name}.bak_{ts}")
backup_path(name, ts) == name \o <<".", "b", "a", "k", "_">> \o ts

\* glob.glob(target_dir / "*.bak_*"): the names the pattern matches
GlobBackup(name) ==
    /\ Head(name) # "."
    /\ Contains(name, <<".", "b", "a", "k", "_">>)

Exists(dir, name) == name \in DOMAIN dir

\* a file written now with these bytes
WriteFile(dir, name, bytes, now) ==
    [n \in DOMAIN dir \cup {name} |->
        IF n = name THEN [bytes |-> bytes, mtime |-> now] ELSE dir[n]]

\* Path.unlink
Unlink(dir, name) == [n \in DOMAIN dir \ {name} |-> dir[n]]

\* Path.replace: the source takes the target's name
Replace(dir, src, dst) ==
    [n \in (DOMAIN dir \cup {dst}) \ {src} |-> IF n = dst THEN dir[src] ELSE dir[n]]

\* json.dumps(data, ensure_ascii=False, indent=2), as file content
Dumps(data) == [kind |-> "json", doc |-> data, fmt |-> "indent2"]

\* a store file as the browser wrote it
BrowserJson(data) == [kind |-> "json", doc |-> data, fmt |-> "browser"]

CorruptBytes == [kind |-> "corrupt"]

PartialBytes == [kind |-> "partial"]

Absent == [kind |-> "absent"]

\* the bytes of a file, Absent when there is none
BytesOf(dir, name) == IF Exists(dir, name) THEN dir[name].bytes ELSE Absent

\* Expired with the subtraction the other way round
ExpiredSignSlip(file, now, days) == file.mtime - now < days * 86400

\* AutoCleaner.clean_old_backups: whether the loop unlinks this file
Expired(file, now, days) == now - file.mtime > days * 86400

clean_old_backups(dir, now, days) ==
    LET gone == {n \in DOMAIN dir : GlobBackup(n) /\ Expired(dir[n], now, days)}
    IN  [n \in DOMAIN dir \ gone |-> dir[n]]

(***************************************************************************)
(* Import's insertion, lines 245-279.                                      *)
(***************************************************************************)
\* StartId from the targeted root alone
StartIdRootOnly(data, root) == find_max_id(data.roots[root]) + 1

\* max_id = self._find_max_id(data); next_id = max_id + 1
StartId(data, root) == doc_max_id(data) + 1

\* the for loop over pairs: one url node per pair, ids counting up from first
RECURSIVE UrlNodes(_, _)
UrlNodes(pairs, first) ==
    IF pairs = <<>> THEN <<>>
    ELSE <<Url(IntToStr(first), Head(pairs)[1], Head(pairs)[2])>>
         \o UrlNodes(Tail(pairs), first + 1)

\* folder_name, renamed when _check_folder_exists says so
FinalName(root_node, folder_name, ts) ==
    IF check_folder_exists(root_node, folder_name)
    THEN folder_name \o <<"_">> \o ts
    ELSE folder_name

\* AppendChild inserting at the front
AppendChildFirst(root_node, new_folder) ==
    [k \in DOMAIN root_node \cup {"children"} |->
        IF k = "children" THEN <<new_folder>> \o Children(root_node)
        ELSE root_node[k]]

\* root_node.setdefault("children", []).append(new_folder)
AppendChild(root_node, new_folder) ==
    [k \in DOMAIN root_node \cup {"children"} |->
        IF k = "children" THEN Append(Children(root_node), new_folder)
        ELSE root_node[k]]

\* the document after the insertion, with the final name and the next unused id
InsertFolder(data, root, folder_name, pairs, ts) ==
    LET root_node == data.roots[root]
        first == StartId(data, root)
        final == FinalName(root_node, folder_name, ts)
        new_folder == Folder(IntToStr(first), final, UrlNodes(pairs, first + 1))
    IN  [data |-> [data EXCEPT !.roots[root] = AppendChild(root_node, new_folder)],
         folder_name |-> final,
         next_id |-> first + 1 + Len(pairs)]

(***************************************************************************)
(* The inputs of the model: one store document, the text files, and the    *)
(* requests a caller may make.                                             *)
(***************************************************************************)
Work == <<"W", "o", "r", "k">>
Sub == <<"S", "u", "b">>
Top == <<"T", "o", "p">>
NewName == <<"N", "e", "w">>
HttpA == <<"h", "t", "t", "p", ":", "/", "/", "a">>
HttpsB == <<"h", "t", "t", "p", "s", ":", "/", "/", "b">>
HttpD == <<"h", "t", "t", "p", ":", "/", "/", "d">>
HttpE == <<"h", "t", "t", "p", ":", "/", "/", "e">>
HttpT == <<"h", "t", "t", "p", ":", "/", "/", "t">>

\* bookmark_bar holds folder Work directly; other holds a folder Work only
\* nested, and a url named Work directly; there is no root "synced".
\* Folder Sub holds two urls with plain titles (one title looks like a url)
\* and a subfolder whose url has a title with a leading space; Top holds no url.
\* The ids are unique; "09" is numeric with a leading zero, "x" is not numeric.
InitDoc ==
    [roots |->
        [bookmark_bar |->
            Folder(<<"5">>, <<"B", "a", "r">>,
                <<Folder(<<"6">>, Work,
                    <<Folder(<<"7">>, Sub,
                        <<Url(<<"0", "9">>, <<"B">>, HttpsB),
                          Url(<<"1", "0">>, HttpT, HttpE),
                          Folder(<<"8">>, <<"D", "e", "e", "p">>, <<Url(<<"x">>, <<" ", "A">>, HttpA)>>)>>)>>)>>),
         other |->
            Folder(<<"1">>, <<"O", "t", "h", "e", "r">>,
                <<Folder(<<"2">>, Top, <<Folder(<<"3">>, Work, <<>>)>>),
                  Url(<<"4">>, Work, HttpD)>>)]]

EmptyDoc == [roots |-> <<>>]

InTxt == <<"i", "n", ".", "t", "x", "t">>
NoiseTxt == <<"n", "o", "i", "s", "e", ".", "t", "x", "t">>
SubTxt == <<"S", "u", "b", ".", "t", "x", "t">>
DotTxt == <<".", "t", "x", "t">>
Preferences == <<"P", "r", "e", "f", "e", "r", "e", "n", "c", "e", "s">>

InitClock == 8 * 86400

\* the text files that exist before any Export
InitTxt ==
    (InTxt :> <<"T", "1", "\n", "h", "t", "t", "p", ":", "/", "/", "x", "\n", "\n",
                "N", "o", "i", "s", "e", "\n", "\n",
                "T", "2", "\n", "H", "T", "T", "P", "S", ":", "/", "/", "y", "\n">>)
    @@ (NoiseTxt :> <<"N", "o", "i", "s", "e", "\n",
                     "m", "o", "r", "e", " ", "n", "o", "i", "s", "e", "\n">>)

\* beside the store: a backup older than the retention window, a backup a
\* day old, and a file that is no backup
InitSiblings ==
    (backup_path(StoreName, strftime(0)) :> [bytes |-> BrowserJson(EmptyDoc), mtime |-> 0])
    @@ (backup_path(StoreName, strftime(InitClock - 86400)) :>
            [bytes |-> BrowserJson(EmptyDoc), mtime |-> InitClock - 86400])
    @@ (Preferences :> [bytes |-> CorruptBytes, mtime |-> 0])

InitStores ==
    { (StoreName :> [bytes |-> BrowserJson(InitDoc), mtime |-> InitClock]),
      (StoreName :> [bytes |-> CorruptBytes, mtime |-> InitClock]),
      <<>> }

Procs == {1, 2}

\* the threads the caller runs when it serializes the operations
SeqProcs == {1}

ImportReqs ==
    [root : {"bookmark_bar", "other", "synced"},
     folder_name : {Work, NewName},
     txt_path : {InTxt, NoiseTxt, SubTxt},
     include_subfolders : {FALSE}]

ExportReqs ==
    [root : {"bookmark_bar", "other", "synced"},
     folder_name : {Sub, Top},
     txt_path : {<<>>},
     include_subfolders : BOOLEAN]

NoReq == [root |-> "", folder_name |-> <<>>, txt_path |-> <<>>, include_subfolders |-> FALSE]

NoLoc ==
    [op |-> "none", req |-> NoReq, pairs |-> <<>>, data |-> EmptyDoc, ts |-> <<>>,
     backup_path |-> <<>>, folder_name |-> <<>>, next_id |-> 0, err |-> "none",
     result |-> <<>>, wfail |-> FALSE, read |-> Absent]

NoFn == [phase |-> "off"]

Init ==
    /\ \E store \in InitStores : fs = store @@ InitSiblings
    /\ txt = InitTxt
    /\ clock = InitClock
    /\ pc = [p \in Procs |-> "idle"]
    /\ loc = [p \in Procs |-> NoLoc]
    /\ pre = [p \in Procs |-> Absent]
    /\ created = {}
    /\ exported = <<>>
    /\ budget = [ops |-> MaxOps, ticks |-> MaxTicks, faults |-> MaxFaults]
    /\ fn = NoFn

AllIdle == \A q \in Procs : pc[q] = "idle"

\* an operation ends: by a return, or by raising err
Return(p, result) ==
    /\ pc' = [pc EXCEPT ![p] = "done"]
    /\ loc' = [loc EXCEPT ![p].result = result]

Raise(p, err) ==
    /\ pc' = [pc EXCEPT ![p] = "done"]
    /\ loc' = [loc EXCEPT ![p].err = err]

(***************************************************************************)
(* export_bookmarks, lines 194-226.                                        *)
(***************************************************************************)
StartExport(p, req) ==
    /\ pc[p] = "idle"
    /\ budget.ops > 0
    /\ budget' = [budget EXCEPT !.ops = @ - 1]
    /\ pc' = [pc EXCEPT ![p] = "xread"]
    /\ loc' = [loc EXCEPT ![p] = [NoLoc EXCEPT !.op = "export", !.req = req]]
    /\ pre' = [pre EXCEPT ![p] = BytesOf(fs, StoreName)]
    /\ UNCHANGED <<fs, txt, clock, created, exported, fn>>

\* lines 197-215: read the store, find the root and the folder, collect
ExportRead(p) ==
    /\ pc[p] = "xread"
    /\ LET req == loc[p].req
           bytes == BytesOf(fs, StoreName)
       IN  IF bytes = Absent THEN Raise(p, "FileNotFoundError")
           ELSE IF bytes.kind # "json" THEN Raise(p, "ValueError")
           ELSE IF req.root \notin DOMAIN bytes.doc.roots THEN Raise(p, "KeyError")
           ELSE LET target_node == find_node_by_name(bytes.doc.roots[req.root], req.folder_name)
                IN  IF target_node = NoNode THEN Raise(p, "FileNotFoundError")
                    ELSE LET pairs == collect_urls(target_node, req.include_subfolders)
                         IN  IF pairs = <<>> THEN Raise(p, "ValueError")
                             ELSE /\ pc' = [pc EXCEPT ![p] = "xwrite"]
                                  /\ loc' = [loc EXCEPT ![p].data = bytes.doc,
                                                        ![p].pairs = pairs]
    /\ UNCHANGED <<fs, txt, clock, pre, created, exported, budget, fn>>

\* lines 218-226: write the text file
ExportWrite(p) ==
    /\ pc[p] = "xwrite"
    /\ LET out_path == sanitize_filename(loc[p].req.folder_name) \o DotTxt
       IN  /\ txt' = [n \in DOMAIN txt \cup {out_path} |->
                        IF n = out_path THEN WritePairs(loc[p].pairs) ELSE txt[n]]
           /\ exported' = [n \in DOMAIN exported \cup {out_path} |->
                        IF n = out_path THEN loc[p].pairs ELSE exported[n]]
           /\ Return(p, <<out_path, Len(loc[p].pairs), StoreName>>)
    /\ UNCHANGED <<fs, clock, pre, created, budget, fn>>

(***************************************************************************)
(* import_bookmarks, lines 228-282, with FileUtils.read_json,              *)
(* AutoCleaner.clean_old_backups and FileUtils.write_json.                 *)
(***************************************************************************)
StartImport(p, req) ==
    /\ pc[p] = "idle"
    /\ budget.ops > 0
    /\ budget' = [budget EXCEPT !.ops = @ - 1]
    /\ pc' = [pc EXCEPT ![p] = "parse"]
    /\ loc' = [loc EXCEPT ![p] = [NoLoc EXCEPT !.op = "import", !.req = req]]
    /\ pre' = [pre EXCEPT ![p] = BytesOf(fs, StoreName)]
    /\ UNCHANGED <<fs, txt, clock, created, exported, fn>>

\* lines 230-232
ImportParse(p) ==
    /\ pc[p] = "parse"
    /\ IF loc[p].req.txt_path \notin DOMAIN txt THEN Raise(p, "FileNotFoundError")
       ELSE LET pairs == parse_txt(txt[loc[p].req.txt_path])
            IN  IF pairs = <<>> THEN Raise(p, "ValueError")
                ELSE /\ pc' = [pc EXCEPT ![p] = "read"]
                     /\ loc' = [loc EXCEPT ![p].pairs = pairs]
    /\ UNCHANGED <<fs, txt, clock, pre, created, exported, budget, fn>>

\* lines 234-235, read_json lines 97-103
ImportRead(p) ==
    /\ pc[p] = "read"
    /\ LET bytes == BytesOf(fs, StoreName)
       IN  IF bytes = Absent THEN Raise(p, "FileNotFoundError")
           ELSE IF bytes.kind # "json" THEN Raise(p, "ValueError")
           ELSE /\ pc' = [pc EXCEPT ![p] = "backup"]
                /\ loc' = [loc EXCEPT ![p].data = bytes.doc, ![p].read = bytes]
    /\ UNCHANGED <<fs, txt, clock, pre, created, exported, budget, fn>>

\* lines 238-240: the backup is a copy of the bytes the store holds now
ImportBackup(p) ==
    /\ pc[p] = "backup"
    /\ LET ts == strftime(clock)
           path == backup_path(StoreName, ts)
       IN  IF ~Exists(fs, StoreName)
           THEN Raise(p, "FileNotFoundError") /\ UNCHANGED <<fs, created>>
           ELSE /\ fs' = WriteFile(fs, path, fs[StoreName].bytes, clock)
                /\ created' = created \cup {path}
                /\ pc' = [pc EXCEPT ![p] = "clean"]
                /\ loc' = [loc EXCEPT ![p].ts = ts, ![p].backup_path = path]
    /\ UNCHANGED <<txt, clock, pre, exported, budget, fn>>

\* line 243
ImportClean(p) ==
    /\ pc[p] = "clean"
    /\ fs' = clean_old_backups(fs, clock, BACKUP_RETENTION_DAYS)
    /\ pc' = [pc EXCEPT ![p] = "insert"]
    /\ UNCHANGED <<txt, clock, loc, pre, created, exported, budget, fn>>

\* ImportInsert on the store as it is now, not on the document of line 235
ImportInsertFresh(p) ==
    /\ pc[p] = "insert"
    /\ LET req == loc[p].req
           cur == BytesOf(fs, StoreName)
           now == IF cur.kind = "json" THEN cur.doc ELSE loc[p].data
       IN  IF req.root \notin DOMAIN now.roots THEN Raise(p, "KeyError")
           ELSE LET ins == InsertFolder(now, req.root, req.folder_name,
                                        loc[p].pairs, loc[p].ts)
                IN  /\ pc' = [pc EXCEPT ![p] = "write"]
                    /\ loc' = [loc EXCEPT ![p].data = ins.data,
                                          ![p].folder_name = ins.folder_name,
                                          ![p].next_id = ins.next_id]
    /\ UNCHANGED <<fs, txt, clock, pre, created, exported, budget, fn>>

\* lines 245-279: all in memory
ImportInsert(p) ==
    /\ pc[p] = "insert"
    /\ LET req == loc[p].req
       IN  IF req.root \notin DOMAIN loc[p].data.roots THEN Raise(p, "KeyError")
           ELSE LET ins == InsertFolder(loc[p].data, req.root, req.folder_name,
                                        loc[p].pairs, loc[p].ts)
                IN  /\ pc' = [pc EXCEPT ![p] = "write"]
                    /\ loc' = [loc EXCEPT ![p].data = ins.data,
                                          ![p].folder_name = ins.folder_name,
                                          ![p].next_id = ins.next_id]
    /\ UNCHANGED <<fs, txt, clock, pre, created, exported, budget, fn>>

\* write_json line 109, when temp_path.write_text succeeds
ImportWriteTmp(p) ==
    /\ pc[p] = "write"
    /\ fs' = WriteFile(fs, temp_path(StoreName), Dumps(loc[p].data), clock)
    /\ pc' = [pc EXCEPT ![p] = "replace"]
    /\ UNCHANGED <<txt, clock, loc, pre, created, exported, budget, fn>>

\* write_json line 109, when temp_path.write_text raises: before the file is
\* opened (nothing written) or part way (a truncated file is left)
ImportWriteTmpFail(p, opened) ==
    /\ pc[p] = "write"
    /\ budget.faults > 0
    /\ budget' = [budget EXCEPT !.faults = @ - 1]
    /\ fs' = IF opened THEN WriteFile(fs, temp_path(StoreName), PartialBytes, clock) ELSE fs
    /\ pc' = [pc EXCEPT ![p] = "except"]
    /\ loc' = [loc EXCEPT ![p].wfail = TRUE]
    /\ UNCHANGED <<txt, clock, pre, created, exported, fn>>

\* write_json line 110, when temp_path.replace(path) succeeds
ImportReplace(p) ==
    /\ pc[p] = "replace"
    /\ Exists(fs, temp_path(StoreName))
    /\ fs' = Replace(fs, temp_path(StoreName), StoreName)
    /\ pc' = [pc EXCEPT ![p] = "return"]
    /\ UNCHANGED <<txt, clock, loc, pre, created, exported, budget, fn>>

\* write_json line 110, when temp_path.replace(path) raises: the temporary
\* file is no longer there, or the operating system refuses
ImportReplaceFail(p) ==
    /\ pc[p] = "replace"
    /\ IF Exists(fs, temp_path(StoreName))
       THEN budget.faults > 0 /\ budget' = [budget EXCEPT !.faults = @ - 1]
       ELSE UNCHANGED budget
    /\ pc' = [pc EXCEPT ![p] = "except"]
    /\ loc' = [loc EXCEPT ![p].wfail = TRUE]
    /\ UNCHANGED <<fs, txt, clock, pre, created, exported, fn>>

\* ExceptCleanup without the unlink
ExceptCleanupKeep(dir, path) == dir

\* the handler's cleanup, lines 112-113
ExceptCleanup(dir, path) ==
    IF Exists(dir, temp_path(path)) THEN Unlink(dir, temp_path(path)) ELSE dir

\* the handler's last line, 114: raise e
ExceptRaise(p) == Raise(p, "OSError")

\* write_json lines 111-114
ImportExcept(p) ==
    /\ pc[p] = "except"
    /\ fs' = ExceptCleanup(fs, StoreName)
    /\ ExceptRaise(p)
    /\ UNCHANGED <<txt, clock, pre, created, exported, budget, fn>>

\* line 282
ImportReturn(p) ==
    /\ pc[p] = "return"
    /\ Return(p, <<loc[p].folder_name, Len(loc[p].pairs), StoreName, loc[p].backup_path>>)
    /\ UNCHANGED <<fs, txt, clock, pre, created, exported, budget, fn>>

(***************************************************************************)
(* The environment: the process dies, the caller takes the outcome, the    *)
(* clock moves, the cleaner is called on its own.                          *)
(***************************************************************************)
\* A kill between two disk calls leaves the files as a kill right after the
\* earlier call does, so the kill is taken right after each call that may
\* have changed a file: lines 240, 243, 109, 110 and the handler's entry.
Running(p) == pc[p] \in {"clean", "insert", "replace", "except", "return"}

\* the process is killed inside an Import: nothing more runs, no handler
Crash(p) ==
    /\ Running(p)
    /\ budget.faults > 0
    /\ budget' = [budget EXCEPT !.faults = @ - 1]
    /\ pc' = [pc EXCEPT ![p] = "crashed"]
    /\ UNCHANGED <<fs, txt, clock, loc, pre, created, exported, fn>>

\* the caller has the result or the error; the thread is free again
Finish(p) ==
    /\ pc[p] \in {"done", "crashed"}
    /\ pc' = [pc EXCEPT ![p] = "idle"]
    /\ loc' = [loc EXCEPT ![p] = NoLoc]
    /\ pre' = [pre EXCEPT ![p] = Absent]
    /\ UNCHANGED <<fs, txt, clock, created, exported, budget, fn>>

\* The clock is read at lines 238 and 126 (a backup's mtime is that of line
\* 240). An operation is a few blocking disk calls: while one runs the clock
\* moves by a second, between those two reads; between operations it moves
\* by the retention window.
Tick(d) ==
    /\ budget.ticks > 0
    /\ IF d = 1 THEN \E p \in Procs : pc[p] = "clean" ELSE AllIdle
    /\ budget' = [budget EXCEPT !.ticks = @ - 1]
    /\ clock' = clock + d
    /\ UNCHANGED <<fs, txt, pc, loc, pre, created, exported, fn>>

\* AutoCleaner.clean_old_backups called on the store's directory by itself
CleanAlone ==
    /\ AllIdle
    /\ budget.ops > 0
    /\ budget' = [budget EXCEPT !.ops = @ - 1]
    /\ fs' = clean_old_backups(fs, clock, BACKUP_RETENTION_DAYS)
    /\ UNCHANGED <<txt, clock, pc, loc, pre, created, exported, fn>>

ImportStep(p) ==
    \/ ImportParse(p)
    \/ ImportRead(p)
    \/ ImportBackup(p)
    \/ ImportClean(p)
    \/ ImportInsert(p)
    \/ ImportWriteTmp(p)
    \/ \E opened \in BOOLEAN : ImportWriteTmpFail(p, opened)
    \/ ImportReplace(p)
    \/ ImportReplaceFail(p)
    \/ ImportExcept(p)
    \/ ImportReturn(p)

Step(p) ==
    \/ ExportRead(p)
    \/ ExportWrite(p)
    \/ ImportStep(p)
    \/ Crash(p)
    \/ Finish(p)

\* the caller serializes: an operation starts only when none is running
Next ==
    \/ \E p \in SeqProcs, req \in ExportReqs : AllIdle /\ StartExport(p, req)
    \/ \E p \in SeqProcs, req \in ImportReqs : AllIdle /\ StartImport(p, req)
    \/ \E p \in SeqProcs : Step(p)
    \/ \E d \in {1, BACKUP_RETENTION_DAYS * 86400} : Tick(d)
    \/ CleanAlone

Spec == Init /\ [][Next]_vars

(***************************************************************************)
(* Imports with no serialization by the caller: _run_async starts a thread *)
(* per request, so an Import starts on a free thread whatever the other    *)
(* thread is doing, and the steps of the two interleave at every disk call.*)
(* Each thread runs one Import and keeps its outcome; a kill of the        *)
(* process ends both threads at once and is left to the serialized runs.   *)
(***************************************************************************)
ConcReqs ==
    [root : {"bookmark_bar", "other"},
     folder_name : {Work, NewName},
     txt_path : {InTxt},
     include_subfolders : {FALSE}]

NextConc ==
    \/ \E p \in Procs, req \in ConcReqs : StartImport(p, req)
    \/ \E p \in Procs : ImportStep(p)
    \/ \E d \in {1, BACKUP_RETENTION_DAYS * 86400} : Tick(d)

SpecConc == Init /\ [][NextConc]_vars

(***************************************************************************)
(* The tree helpers on their own: every tree of at most MaxNodes nodes     *)
(* whose root is a folder, every name, both values of the flag.            *)
(***************************************************************************)
TreeNames == {<<"A">>, <<"B">>}

\* the trees of n nodes and the sequences of trees of n nodes in all,
\* before the nodes are numbered
RECURSIVE TreesOfSize(_)
RECURSIVE ForestsOfSize(_)
TreesOfSize(n) ==
    (IF n = 1 THEN {Url(<<>>, nm, <<>>) : nm \in TreeNames} ELSE {})
    \cup {Folder(<<>>, nm, f) : nm \in TreeNames, f \in ForestsOfSize(n - 1)}

ForestsOfSize(n) ==
    IF n = 0 THEN {<<>>}
    ELSE UNION {{<<t>> \o f : t \in TreesOfSize(k), f \in ForestsOfSize(n - k)} : k \in 1..n}

\* the node with its nodes numbered in pre-order from next: the k-th node
\* gets the id k, a url node the url "u" followed by its id
RECURSIVE Number(_, _)
RECURSIVE NumberAll(_, _)
NumberAll(children, next) ==
    IF children = <<>> THEN [nodes |-> <<>>, next |-> next]
    ELSE LET h == Number(Head(children), next)
             t == NumberAll(Tail(children), h.next)
         IN  [nodes |-> <<h.node>> \o t.nodes, next |-> t.next]

Number(node, next) ==
    IF node.type = "url"
    THEN [node |-> Url(IntToStr(next), node.name, <<"u">> \o IntToStr(next)), next |-> next + 1]
    ELSE LET ch == NumberAll(node.children, next + 1)
         IN  [node |-> Folder(IntToStr(next), node.name, ch.nodes), next |-> ch.next]

Trees ==
    {Number(t, 1).node : t \in {u \in UNION {TreesOfSize(n) : n \in 1..MaxNodes} : u.type = "folder"}}

InitTree ==
    /\ fs = (StoreName :> [bytes |-> BrowserJson(InitDoc), mtime |-> InitClock]) @@ InitSiblings
    /\ txt = InitTxt
    /\ clock = InitClock
    /\ pc = [p \in Procs |-> "idle"]
    /\ loc = [p \in Procs |-> NoLoc]
    /\ pre = [p \in Procs |-> Absent]
    /\ created = {}
    /\ exported = <<>>
    /\ budget = [ops |-> 0, ticks |-> 0, faults |-> 0]
    /\ \E t \in Trees, nm \in TreeNames, r \in BOOLEAN :
          fn = [phase |-> "input", tree |-> t, name |-> nm, recursive |-> r, res |-> NoNode]

\* self._find_node_by_name(root_node, req.folder_name)
ApplyFind ==
    /\ fn.phase = "input"
    /\ fn' = [fn EXCEPT !.phase = "found", !.res = find_node_by_name(fn.tree, fn.name)]
    /\ UNCHANGED <<fs, txt, clock, pc, loc, pre, created, exported, budget>>

\* self._collect_urls(target_node, req.include_subfolders)
ApplyCollect ==
    /\ fn.phase = "input"
    /\ fn' = [fn EXCEPT !.phase = "collected", !.res = collect_urls(fn.tree, fn.recursive)]
    /\ UNCHANGED <<fs, txt, clock, pc, loc, pre, created, exported, budget>>

NextTree == ApplyFind \/ ApplyCollect

SpecTree == InitTree /\ [][NextTree]_vars

(***************************************************************************)
(* _parse_txt on its own: every text of at most MaxLines lines, each line  *)
(* a title, a url, a look-alike or blank, bare or padded with white space, *)
(* ended by "\n" or "\r\n", the last line with or without its line end.    *)
(***************************************************************************)
LineBodies ==
    {<<"T">>,
     <<"h", "t", "t", "p", ":", "/", "/", "x">>,
     <<"H", "T", "T", "P", "S", ":", "/", "/", "y">>,
     <<"f", "t", "p", ":", "/", "/", "z">>,
     <<>>}

\* a line as it stands in the file: its body between two runs of white space
TextLines ==
    {[body |-> b, lead |-> <<>>, trail |-> <<>>] : b \in LineBodies}
    \cup {[body |-> b, lead |-> <<" ">>, trail |-> <<"\t">>] :
             b \in {<<"T">>, <<"H", "T", "T", "P", "S", ":", "/", "/", "y">>, <<>>}}

LineEnds == {<<"\n">>, <<"\r", "\n">>}

\* the file's text: the lines, each followed by the line end, the last one
\* only when closed
RECURSIVE JoinLines(_, _, _)
JoinLines(ls, end, closed) ==
    IF ls = <<>> THEN <<>>
    ELSE Head(ls).lead \o Head(ls).body \o Head(ls).trail
         \o (IF Len(ls) > 1 \/ closed THEN end ELSE <<>>)
         \o JoinLines(Tail(ls), end, closed)

RECURSIVE LinesUpTo(_)
LinesUpTo(n) ==
    IF n = 0 THEN {<<>>}
    ELSE LinesUpTo(n - 1)
         \cup {Append(ls, l) : ls \in {x \in LinesUpTo(n - 1) : Len(x) = n - 1}, l \in TextLines}

InitParse ==
    /\ fs = (StoreName :> [bytes |-> BrowserJson(InitDoc), mtime |-> InitClock]) @@ InitSiblings
    /\ txt = InitTxt
    /\ clock = InitClock
    /\ pc = [p \in Procs |-> "idle"]
    /\ loc = [p \in Procs |-> NoLoc]
    /\ pre = [p \in Procs |-> Absent]
    /\ created = {}
    /\ exported = <<>>
    /\ budget = [ops |-> 0, ticks |-> 0, faults |-> 0]
    /\ \E ls \in LinesUpTo(MaxLines), end \in LineEnds, closed \in BOOLEAN :
          fn = [phase |-> "text", lines |-> ls, text |-> JoinLines(ls, end, closed),
                res |-> <<>>]

\* pairs = self._parse_txt(req.txt_path), line 230
ApplyParse ==
    /\ fn.phase = "text"
    /\ fn' = [fn EXCEPT !.phase = "parsed", !.res = parse_txt(fn.text)]
    /\ UNCHANGED <<fs, txt, clock, pc, loc, pre, created, exported, budget>>

NextParse == ApplyParse

SpecParse == InitParse /\ [][NextParse]_vars

(***************************************************************************)
(* What the properties speak of, stated without the operators above where  *)
(* the property is about what those operators compute.                     *)
(***************************************************************************)
ImportDone(p) == pc[p] = "done" /\ loc[p].op = "import"

\* the Import has returned its tuple
ImportOk(p) == ImportDone(p) /\ loc[p].err = "none" /\ loc[p].result # <<>>

TmpFileName == StoreName \o <<".", "t", "m", "p">>

StoreNow == BytesOf(fs, StoreName)

\* all nodes of a tree, in pre-order
RECURSIVE NodesOf(_)
RECURSIVE NodesOfAll(_)
NodesOfAll(children) ==
    IF children = <<>> THEN <<>> ELSE NodesOf(Head(children)) \o NodesOfAll(Tail(children))

NodesOf(node) ==
    <<node>> \o (IF "children" \in DOMAIN node THEN NodesOfAll(node.children) ELSE <<>>)

\* all nodes of a document
DocNodes(doc) == NodesOfAll(RootNodes(doc))

IdsOf(doc) == LET nodes == DocNodes(doc) IN [k \in 1..Len(nodes) |-> nodes[k].id]

UniqueIds(doc) ==
    LET ids == IdsOf(doc)
    IN  Cardinality({ids[k] : k \in 1..Len(ids)}) = Len(ids)

\* the largest integer an id of the document stands for, 0 when there is none
LargestId(doc) ==
    LET ids == IdsOf(doc)
        nums == {ParseInt(ids[k]) : k \in {j \in 1..Len(ids) : IntParses(ids[j])}} \cup {0}
    IN  CHOOSE m \in nums : \A n \in nums : n <= m

\* YYYYMMDD_HHMMSS
IsTimestamp(s) ==
    /\ Len(s) = 15
    /\ s[9] = "_"
    /\ \A k \in (1..15) \ {9} : IsDigit(s[k])

\* the document an Import started from, the document it left, and the folder it added
OldDoc(p) == pre[p].doc

NewDoc == StoreNow.doc

Added(p) ==
    LET ch == NewDoc.roots[loc[p].req.root].children IN ch[Len(ch)]

\* the (name, url) pairs of a folder's children
PairsOf(folder) ==
    [k \in 1..Len(folder.children) |-> <<folder.children[k].name, folder.children[k].url>>]

\* new is old with exactly one folder of k children appended to root's children
OneFolderAppended(old, new, root, k) ==
    /\ DOMAIN new.roots = DOMAIN old.roots
    /\ \A r \in DOMAIN old.roots \ {root} : new.roots[r] = old.roots[r]
    /\ root \in DOMAIN old.roots
    /\ LET o == old.roots[root]
           n == new.roots[root]
           och == IF "children" \in DOMAIN o THEN o.children ELSE <<>>
       IN  /\ DOMAIN n = DOMAIN o \cup {"children"}
           /\ \A f \in DOMAIN o \ {"children"} : n[f] = o[f]
           /\ Len(n.children) = Len(och) + 1
           /\ SubSeq(n.children, 1, Len(och)) = och
           /\ n.children[Len(n.children)].type = "folder"
           /\ Len(n.children[Len(n.children)].children) = k

(***************************************************************************)
(* C1. When the write step of an Import fails (writing the temporary file, *)
(* or replacing the store with it), then once Import has returned the      *)
(* store file is what it was before the Import, the temporary file does    *)
(* not exist, and the caller got the error, not a result.                  *)
(***************************************************************************)
C1_WriteFailureLeavesStore ==
    \A p \in Procs :
        (ImportDone(p) /\ loc[p].wfail) =>
            /\ StoreNow = pre[p]
            /\ TmpFileName \notin DOMAIN fs
            /\ loc[p].err # "none"
            /\ loc[p].result = <<>>

\* an Import whose write step failed has returned
C1_Witness == \E p \in Procs : ImportDone(p) /\ loc[p].wfail /\ loc[p].err = "OSError"

(***************************************************************************)
(* C2. While one operation runs alone, and after it ended in any way, the  *)
(* store file holds its content from before the operation, or the whole    *)
(* document with the new folder; it differs from before only in an Import  *)
(* at or after line 110's replace, never in an Export.                     *)
(***************************************************************************)
C2_AllOrNothing ==
    \A p \in Procs :
        pc[p] # "idle" =>
            \/ StoreNow = pre[p]
            \/ /\ loc[p].op = "import"
               /\ pc[p] \in {"return", "done", "crashed"}
               /\ pc[p] = "done" => loc[p].err = "none"
               /\ StoreNow.kind = "json"
               /\ pre[p].kind = "json"
               /\ OneFolderAppended(pre[p].doc, StoreNow.doc, loc[p].req.root,
                                    Len(loc[p].pairs))

\* the process died after the temporary file was written and before the replace
C2_Witness ==
    \E p \in Procs :
        /\ pc[p] = "crashed"
        /\ loc[p].op = "import"
        /\ TmpFileName \in DOMAIN fs
        /\ fs[TmpFileName].bytes.kind = "json"
        /\ StoreNow = pre[p]

(***************************************************************************)
(* C3. In an Import that replaces the store, from the cleanup on and up to *)
(* the return, a file <store-name>.bak_<timestamp> exists beside the store *)
(* and holds the bytes the store had before this Import; it was there      *)
(* before the replace, and the returned backup path names it.              *)
(***************************************************************************)
IsBackupOf(store, path) ==
    /\ Len(path) = Len(store) + 5 + 15
    /\ SubSeq(path, 1, Len(store)) = store
    /\ SubSeq(path, Len(store) + 1, Len(store) + 5) = <<".", "b", "a", "k", "_">>
    /\ IsTimestamp(SubSeq(path, Len(store) + 6, Len(path)))

HoldsBackup(path, bytes) ==
    /\ IsBackupOf(StoreName, path)
    /\ path \in DOMAIN fs
    /\ fs[path].bytes = bytes
    /\ path \in created

C3_BackupBeforeReplace ==
    \A p \in Procs :
        /\ (loc[p].op = "import" /\ pc[p] \in {"insert", "write", "replace", "return"})
              => HoldsBackup(loc[p].backup_path, pre[p])
        /\ ImportOk(p) => HoldsBackup(loc[p].result[4], pre[p])

\* an Import has replaced the store and returned
C3_Witness == \E p \in Procs : ImportOk(p) /\ StoreNow # pre[p]

(***************************************************************************)
(* C4. A backup file that an Import created keeps its content in every     *)
(* later step; it disappears only in a retention cleanup and only when it  *)
(* is older than the retention window; a cleanup removes nothing else.     *)
(***************************************************************************)
CleanupStep == (\E p \in Procs : pc[p] = "clean") \/ AllIdle

C4_BackupsImmutable ==
    [][ /\ \A n \in created \cap DOMAIN fs :
              IF n \in DOMAIN fs'
              THEN fs'[n].bytes = fs[n].bytes
              ELSE CleanupStep /\ clock - fs[n].mtime > 7 * 86400
        /\ \A n \in DOMAIN fs \ DOMAIN fs' :
              n = TmpFileName \/ (GlobBackup(n) /\ clock - fs[n].mtime > 7 * 86400)
      ]_vars

(***************************************************************************)
(* C5. The ids of the store document stay unique through every sequence of *)
(* Imports; an Import of k pairs gives the new folder the id N = (largest  *)
(* id of the whole document) + 1 and its urls N+1 .. N+k in pair order,    *)
(* the next unused id is N+k+1, and none of these was in the document.     *)
(***************************************************************************)
C5_IdsUnique ==
    /\ StoreNow.kind = "json" => UniqueIds(StoreNow.doc)
    /\ \A p \in Procs :
          (ImportOk(p) /\ StoreNow # pre[p]) =>
              LET N == LargestId(OldDoc(p)) + 1
                  k == Len(loc[p].pairs)
                  f == Added(p)
                  ids == IdsOf(OldDoc(p))
                  old == {ids[i] : i \in 1..Len(ids)}
              IN  /\ IntParses(f.id) /\ ParseInt(f.id) = N
                  /\ Len(f.children) = k
                  /\ \A i \in 1..k :
                        IntParses(f.children[i].id) /\ ParseInt(f.children[i].id) = N + i
                  /\ loc[p].next_id = N + k + 1
                  /\ f.id \notin old
                  /\ \A i \in 1..k : f.children[i].id \notin old

\* an Import into a document that already holds an earlier Import's folder
C5_Witness ==
    \E p \in Procs :
        /\ ImportOk(p)
        /\ StoreNow # pre[p]
        /\ pre[p].fmt = "indent2"
        /\ Len(Added(p).children) >= 2

(***************************************************************************)
(* C6. A successful Import changes the document only by appending one new  *)
(* folder as the last child of the targeted root: the earlier children,    *)
(* the root's other attributes and every other root are as before, and the *)
(* new folder's children are one url node per parsed pair, in pair order.  *)
(***************************************************************************)
C6_OnlyAppends ==
    \A p \in Procs :
        ImportOk(p) =>
            LET pairs == parse_txt(txt[loc[p].req.txt_path])
                f == Added(p)
            IN  /\ StoreNow.kind = "json"
                /\ OneFolderAppended(OldDoc(p), NewDoc, loc[p].req.root, Len(pairs))
                /\ \A i \in 1..Len(pairs) :
                      /\ f.children[i].type = "url"
                      /\ f.children[i].name = pairs[i][1]
                      /\ f.children[i].url = pairs[i][2]
                      /\ "children" \notin DOMAIN f.children[i]

\* an Import into a root that had children has returned
C6_Witness ==
    \E p \in Procs :
        /\ ImportOk(p)
        /\ Len(OldDoc(p).roots[loc[p].req.root].children) >= 2
        /\ Len(Added(p).children) >= 2

(***************************************************************************)
(* C7. When the targeted root already has a direct folder child with the   *)
(* requested name X, the inserted folder's name and the returned name are  *)
(* X_<timestamp>, not X; when it has none (a nested folder or a url child  *)
(* named X does not count), they are exactly X.                            *)
(***************************************************************************)
HasDirectFolder(root_node, name) ==
    \E c \in {root_node.children[i] : i \in 1..Len(root_node.children)} :
        c.type = "folder" /\ c.name = name

C7_FinalName ==
    \A p \in Procs :
        ImportOk(p) =>
            LET X == loc[p].req.folder_name
                final == loc[p].result[1]
            IN  /\ Added(p).name = final
                /\ IF HasDirectFolder(OldDoc(p).roots[loc[p].req.root], X)
                   THEN /\ final # X
                        /\ Len(final) = Len(X) + 16
                        /\ SubSeq(final, 1, Len(X) + 1) = X \o <<"_">>
                        /\ IsTimestamp(SubSeq(final, Len(X) + 2, Len(final)))
                   ELSE final = X

\* an Import whose folder name was taken by a direct folder child has returned
C7_Witness ==
    \E p \in Procs :
        /\ ImportOk(p)
        /\ HasDirectFolder(OldDoc(p).roots[loc[p].req.root], loc[p].req.folder_name)

(***************************************************************************)
(* C8. Round trip. As claimed: when the pairs an Export collected have     *)
(* non-empty single-line titles and urls beginning with http:// or         *)
(* https://, an Import of the file that Export wrote adds a folder whose   *)
(* children carry exactly those pairs in that order.                       *)
(***************************************************************************)
NoLineBreak(s) == \A k \in 1..Len(s) : s[k] \notin {"\n", "\r"}

BeginsWithHttp(s) ==
    \/ Len(s) >= 7 /\ SubSeq(s, 1, 7) = <<"h", "t", "t", "p", ":", "/", "/">>
    \/ Len(s) >= 8 /\ SubSeq(s, 1, 8) = <<"h", "t", "t", "p", "s", ":", "/", "/">>

CleanPairs(pairs) ==
    \A k \in 1..Len(pairs) :
        /\ pairs[k][1] # <<>>
        /\ NoLineBreak(pairs[k][1])
        /\ NoLineBreak(pairs[k][2])
        /\ BeginsWithHttp(pairs[k][2])

NoOuterSpace(s) ==
    s # <<>> /\ s[1] \notin {" ", "\t", "\n", "\r"} /\ s[Len(s)] \notin {" ", "\t", "\n", "\r"}

TrimmedPairs(pairs) ==
    \A k \in 1..Len(pairs) : NoOuterSpace(pairs[k][1]) /\ NoOuterSpace(pairs[k][2])

\* the Import read a file that an Export wrote
ImportedExport(p) == ImportOk(p) /\ loc[p].req.txt_path \in DOMAIN exported

C8_RoundTrip ==
    \A p \in Procs :
        (ImportedExport(p) /\ CleanPairs(exported[loc[p].req.txt_path])) =>
            PairsOf(Added(p)) = exported[loc[p].req.txt_path]

(***************************************************************************)
(* C8, amended: the same, for pairs whose titles and urls also have no     *)
(* leading or trailing whitespace (the reader trims every line).           *)
(***************************************************************************)
C8_RoundTripTrimmed ==
    \A p \in Procs :
        (/\ ImportedExport(p)
         /\ CleanPairs(exported[loc[p].req.txt_path])
         /\ TrimmedPairs(exported[loc[p].req.txt_path])) =>
            /\ PairsOf(Added(p)) = exported[loc[p].req.txt_path]
            /\ \A i \in 1..Len(Added(p).children) : Added(p).children[i].type = "url"

\* an exported file of two clean pairs, one with a title that looks like a url,
\* has been imported
C8_Witness ==
    \E p \in Procs :
        /\ ImportedExport(p)
        /\ CleanPairs(exported[loc[p].req.txt_path])
        /\ TrimmedPairs(exported[loc[p].req.txt_path])
        /\ Len(exported[loc[p].req.txt_path]) = 2

(***************************************************************************)
(* C9. For every tree and every name, _find_node_by_name returns the first *)
(* node in pre-order (children in array order) that is a folder with       *)
(* exactly that name, and None exactly when no folder at any depth has it. *)
(***************************************************************************)
FolderMatches(tree, name) ==
    {k \in 1..Len(NodesOf(tree)) :
        NodesOf(tree)[k].type = "folder" /\ NodesOf(tree)[k].name = name}

C9_FirstPreOrderMatch ==
    fn.phase = "found" =>
        LET nodes == NodesOf(fn.tree)
            hits == FolderMatches(fn.tree, fn.name)
        IN  IF hits = {} THEN fn.res = NoNode
            ELSE fn.res = nodes[CHOOSE k \in hits : \A j \in hits : k <= j]

\* two folders below the root carry the name, and the first of them was returned
C9_Witness ==
    /\ fn.phase = "found"
    /\ Cardinality(FolderMatches(fn.tree, fn.name)) >= 2
    /\ fn.res # NoNode
    /\ fn.res.id # <<"1">>

(***************************************************************************)
(* C10. For every folder, _collect_urls with recursive false returns the   *)
(* (name, url) pairs of its direct url children in child order, and with   *)
(* recursive true those of all url descendants in pre-order.               *)
(***************************************************************************)
UrlPairs(nodes) ==
    LET urls == SelectSeq(nodes, LAMBDA n : n.type = "url")
    IN  [k \in 1..Len(urls) |-> <<urls[k].name, urls[k].url>>]

C10_CollectOrder ==
    fn.phase = "collected" =>
        IF fn.recursive
        THEN fn.res = UrlPairs(Tail(NodesOf(fn.tree)))
        ELSE fn.res = UrlPairs(fn.tree.children)

\* a recursive collection where a subfolder's url comes before a later direct url
C10_Witness ==
    /\ fn.phase = "collected"
    /\ fn.recursive
    /\ \E i, j \in 1..Len(fn.tree.children) :
          /\ i < j
          /\ fn.tree.children[i].type = "folder"
          /\ fn.tree.children[i].children # <<>>
          /\ fn.tree.children[i].children[1].type = "url"
          /\ fn.tree.children[j].type = "url"
    /\ Len(fn.res) = 2

(***************************************************************************)
(* C11. _parse_txt scans the non-empty trimmed lines from the left with a  *)
(* window of two: when the line after the current one begins with http://  *)
(* or https:// in any letter case it emits (current, next) and moves on by *)
(* two, otherwise it drops the current line and moves on by one; the last  *)
(* line is never the first of a pair, and a text without such a pair gives *)
(* the empty sequence.                                                     *)
(***************************************************************************)
\* the non-empty trimmed lines, read off the lines the text was built from
BodiesOf(ls) ==
    LET kept == SelectSeq(ls, LAMBDA l : l.body # <<>>)
    IN  [k \in 1..Len(kept) |-> kept[k].body]

HttpPrefix(u) ==
    \E pfx \in {<<"h", "t", "t", "p", ":", "/", "/">>, <<"h", "t", "t", "p", "s", ":", "/", "/">>} :
        /\ Len(u) >= Len(pfx)
        /\ \A k \in 1..Len(pfx) : u[k] = pfx[k] \/ Lower(u[k]) = pfx[k]

\* the positions at which the window emits, from position i on
RECURSIVE WindowFrom(_, _)
WindowFrom(ls, i) ==
    IF i >= Len(ls) THEN <<>>
    ELSE IF HttpPrefix(ls[i + 1]) THEN <<i>> \o WindowFrom(ls, i + 2)
         ELSE WindowFrom(ls, i + 1)

C11_TwoLineWindow ==
    fn.phase = "parsed" =>
        LET ls == BodiesOf(fn.lines)
            at == WindowFrom(ls, 1)
        IN  /\ fn.res = [k \in 1..Len(at) |-> <<ls[at[k]], ls[at[k] + 1]>>]
            /\ \A k \in 1..Len(at) : at[k] < Len(ls)
            /\ (\A i \in 2..Len(ls) : ~HttpPrefix(ls[i])) => fn.res = <<>>

\* a padded text of four lines: the first is dropped as noise, the next two
\* are emitted with an upper-case scheme, the last has no line after it
C11_Witness ==
    /\ fn.phase = "parsed"
    /\ Len(BodiesOf(fn.lines)) = 4
    /\ ~HttpPrefix(BodiesOf(fn.lines)[2])
    /\ ~HttpPrefix(BodiesOf(fn.lines)[4])
    /\ \E k \in 1..4 : fn.lines[k].lead # <<>>
    /\ fn.res = <<<<BodiesOf(fn.lines)[2], <<"H", "T", "T", "P", "S", ":", "/", "/", "y">>>>>>

(***************************************************************************)
(* C12. Two Imports on the same store that run concurrently race: both can *)
(* read the same document, compute the same first id and return success,   *)
(* and the store then holds only one of the two inserted folders. Stated   *)
(* for every such pair: whenever two Imports that read the same bytes have *)
(* both returned their tuple, their new folders carry the same id and the  *)
(* store is the document that was read with one folder appended, that of   *)
(* one of the two.                                                         *)
(***************************************************************************)
\* the folder the Import of thread p built, as it stands in its own document
OwnFolder(p) ==
    LET ch == loc[p].data.roots[loc[p].req.root].children IN ch[Len(ch)]

\* the number of children over all roots
RootChildren(doc) ==
    LET RECURSIVE Sum(_)
        Sum(rs) == IF rs = <<>> THEN 0 ELSE Len(Children(Head(rs))) + Sum(Tail(rs))
    IN  Sum(RootNodes(doc))

BothReturned(p, q) ==
    /\ p # q
    /\ ImportOk(p)
    /\ ImportOk(q)
    /\ loc[p].read = loc[q].read

C12_LostUpdate ==
    \A p, q \in Procs :
        BothReturned(p, q) =>
            /\ OwnFolder(p).id = OwnFolder(q).id
            /\ StoreNow.kind = "json"
            /\ StoreNow.doc \in {loc[p].data, loc[q].data}
            /\ RootChildren(StoreNow.doc) = RootChildren(loc[p].read.doc) + 1

\* both returned success for different folders, and the folder of thread 1
\* is not in the store
C12_Witness ==
    /\ BothReturned(1, 2)
    /\ loc[1].result[1] # loc[2].result[1]
    /\ StoreNow.doc = loc[2].data
    /\ \A r \in DOMAIN NewDoc.roots :
          \A k \in 1..Len(Children(NewDoc.roots[r])) :
             Children(NewDoc.roots[r])[k].name # loc[1].result[1]

====
